---- MODULE Spec2Model ----
(***************************************************************************)
(* Model of qlib/contrib/strategy/rule_strategy.py: the order-slicing      *)
(* strategies TWAPStrategy, SBBStrategy and SBBEMAStrategy.                *)
(*                                                                         *)
(* One strategy instance is modelled.  It is constructed once, then the    *)
(* owning loop calls generate_order_list step after step; reset may be     *)
(* called again on the constructed instance.                               *)
(*                                                                         *)
(* Reading of the source.  The file has slips that stop it from being      *)
(* imported at all (a missing colon on line 121, the bare names TREND_MID  *)
(* on lines 67 and 88, trade_delay initialised on line 64 where            *)
(* trade_trend is used on line 67, super() called with unrelated classes). *)
(* They are read as what they stand for: self.TREND_MID, an instance map   *)
(* trade_trend, and calls of the base classes' reset and                   *)
(* generate_order_list.  The base classes RuleStrategy and                 *)
(* TradingEnhancement (qlib/strategy/base.py) are not part of the source   *)
(* at hand; the calendar, the registration of the parent orders and the    *)
(* step cursor are modelled from the specification (BaseReset, BaseStep,   *)
(* trade_dates).                                                           *)
(***************************************************************************)
EXTENDS Integers, Sequences, FiniteSets, TLC

VARIABLES
    pc,                 \* "new": not constructed, "ready": constructed, "failed": __init__ raised
    cls,                \* the class of the instance
    trade_len,          \* N, the number of steps of the calendar
    trade_index,        \* the step cursor: 0 before the first step, k during/after step k
    trade_order_list,   \* the registered parent orders
    trade_amount,       \* (stock_id, direction) -> base amount
    trade_trend,        \* (stock_id, direction) -> trend stored on the last odd step
    log,                \* one entry per generate_order_list call of the current run
    last,               \* the outcome of the last operation
    heap,               \* two instances in one process: the trend dicts allocated
    inst                \* two instances in one process: the attributes of each

vars == <<pc, cls, trade_len, trade_index, trade_order_list, trade_amount,
          trade_trend, log, last, heap, inst>>

\* The attributes of the single instance, and those of the pair of instances.
single == <<pc, cls, trade_len, trade_index, trade_order_list, trade_amount,
            trade_trend, log, last>>
pair == <<heap, inst>>

-----------------------------------------------------------------------------
(* Bounds of the model *)

MaxLen == 3
MaxAmount == 3
MaxOrders == 2

-----------------------------------------------------------------------------
(* Constants of the program *)

TREND_MID == 0
TREND_SHORT == 1
TREND_LONG == 2

Trends == {TREND_MID, TREND_SHORT, TREND_LONG}

BUY == "BUY"
SELL == "SELL"
Directions == {BUY, SELL}

TWAP == "TWAPStrategy"
SBB == "SBBStrategy"
SBBSUB == "SBBStrategy subclass"
SBBEMA == "SBBEMAStrategy"
Classes == {TWAP, SBB, SBBSUB, SBBEMA}
SBBClasses == {SBB, SBBSUB, SBBEMA}

NoError == "ok"

-----------------------------------------------------------------------------
(* Inputs *)

Stocks == {"SH600000"}
Factors == {1, 2}

ParentOrders ==
    [stock_id : Stocks, direction : Directions, amount : 0..MaxAmount, factor : Factors]

OrderLists == UNION {[1..n -> ParentOrders] : n \in 0..MaxOrders}

\* The parent orders of a later run (a reset of a constructed instance).
ResetOrders == {order \in ParentOrders : order.amount = MaxAmount /\ order.factor = 1}

\* The lists a later run is given: every list of these orders without a
\* repeated key, and every list that gives one order twice.
ResetOrderLists ==
    {orders \in UNION {[1..n -> ResetOrders] : n \in 0..MaxOrders} :
        \A i, j \in 1..Len(orders) : i # j => orders[i] # orders[j]}
    \cup {<<order, order>> : order \in ResetOrders}

KeyOf(order) == <<order.stock_id, order.direction>>

KeysOf(orders) == {KeyOf(orders[i]) : i \in 1..Len(orders)}

HasKey(map, key) == key \in DOMAIN map

EmptyMap == <<>>

-----------------------------------------------------------------------------
(* The calendar and the base classes (qlib/strategy/base.py) *)

StepBar == 2

\* trade_dates[i]: boundary i of the calendar; step k runs from boundary k-1 to k.
trade_dates(i) == i * StepBar

HasDuplicateKey(orders) ==
    \E i, j \in 1..Len(orders) : i < j /\ KeyOf(orders[i]) = KeyOf(orders[j])

\* RuleStrategy.reset and TradingEnhancement.reset: bind the calendar and
\* register the parent orders, or fail.
BaseReset(n, orders) ==
    IF HasDuplicateKey(orders)
    THEN [err |-> "DuplicateKey", trade_len |-> 0, trade_order_list |-> <<>>]
    ELSE [err |-> NoError, trade_len |-> n, trade_order_list |-> orders]

\* The base generate_order_list: advance the step cursor, or fail past step N.
BaseStep(index, n) ==
    IF index + 1 > n
    THEN [err |-> "StepOutOfRange", trade_index |-> index]
    ELSE [err |-> NoError, trade_index |-> index + 1]

-----------------------------------------------------------------------------
(* Child orders *)

\* Mutant: a child order does not take the factor it is given.
Order_without_factor(stock_id, amount, start_time, end_time, direction, factor) ==
    [stock_id |-> stock_id, amount |-> amount, start_time |-> start_time,
     end_time |-> end_time, direction |-> direction, factor |-> 1]

Order(stock_id, amount, start_time, end_time, direction, factor) ==
    [stock_id |-> stock_id, amount |-> amount, start_time |-> start_time,
     end_time |-> end_time, direction |-> direction, factor |-> factor]

\* The index of the last order of the list with the given key: a dict
\* assignment in a loop keeps the last value written.
LastIndexOf(orders, key) ==
    CHOOSE i \in 1..Len(orders) :
        /\ KeyOf(orders[i]) = key
        /\ \A j \in (i + 1)..Len(orders) : KeyOf(orders[j]) # key

-----------------------------------------------------------------------------
(* TWAPStrategy *)

\* Mutant: the base amount is rounded up instead of down.
TWAP_init_trade_amount_ceiling(orders, n) ==
    [key \in KeysOf(orders) |->
        (orders[LastIndexOf(orders, key)].amount + n - 1) \div n]

\* __init__, lines 21-23: trade_amount[(stock_id, direction)] = amount // trade_len
TWAP_init_trade_amount(orders, n) ==
    [key \in KeysOf(orders) |-> orders[LastIndexOf(orders, key)].amount \div n]

\* The body of the loop of generate_order_list for the orders i..Len(orders).
\* A failed lookup raises: no list is returned.
RECURSIVE TWAP_loop(_, _, _, _, _)
TWAP_loop(orders, amount, start_time, end_time, i) ==
    IF i > Len(orders) THEN [err |-> NoError, out |-> <<>>]
    ELSE LET order == orders[i] IN
         IF ~HasKey(amount, KeyOf(order)) THEN [err |-> "KeyError", out |-> <<>>]
         ELSE LET rest == TWAP_loop(orders, amount, start_time, end_time, i + 1)
                  _order == Order(order.stock_id, amount[KeyOf(order)], start_time,
                                  end_time, order.direction, order.factor)
              IN  IF rest.err # NoError THEN rest
                  ELSE [err |-> NoError, out |-> <<_order>> \o rest.out]

\* Mutant: the child orders carry the bounds of the step after the current one.
TWAP_generate_order_list_next_step(orders, amount, index) ==
    TWAP_loop(orders, amount, trade_dates(index), trade_dates(index + 1), 1)

\* Mutant: the amount of a step grows with the step.
TWAP_generate_order_list_cumulative(orders, amount, index) ==
    TWAP_loop(orders, [key \in DOMAIN amount |-> amount[key] * index],
              trade_dates(index - 1), trade_dates(index), 1)

\* generate_order_list, lines 31-44, at step index (the cursor already advanced).
TWAP_generate_order_list(orders, amount, index) ==
    TWAP_loop(orders, amount, trade_dates(index - 1), trade_dates(index), 1)

-----------------------------------------------------------------------------
(* SBBStrategy *)

\* Mutant: the base amount of a key is the whole amount of its parent order.
SBB_init_trade_amount_whole(orders, n) ==
    [key \in KeysOf(orders) |-> orders[LastIndexOf(orders, key)].amount]

\* __init__, lines 65-66
SBB_init_trade_amount(orders, n) ==
    [key \in KeysOf(orders) |-> orders[LastIndexOf(orders, key)].amount \div n]

\* __init__, line 67
SBB_init_trade_trend(orders) ==
    [key \in KeysOf(orders) |-> TREND_MID]

\* An optional time: <<>> is None, <<t>> is the time t.
None == <<>>
Some(t) == <<t>>

\* Lines 78-81: the prediction window computed at the head of
\* generate_order_list; Timedelta(seconds=1) is one unit of time.
SBB_pred_window(index, trade_start_time) ==
    IF index = 1
    THEN <<None, Some(trade_start_time - 1)>>
    ELSE <<Some(trade_dates(index - 2)), Some(trade_start_time - 1)>>

\* What the sampled signal can be: no data, or a value by its sign.
Samples == {"empty", "negative", "zero", "positive"}

\* SBBEMAStrategy._pred_price_trend, lines 156-161, on the sampled signal.
SBBEMA_pred_price_trend(sample) ==
    IF sample = "empty" THEN TREND_MID
    ELSE IF sample = "positive" THEN TREND_LONG
    ELSE TREND_SHORT

\* Mutant: the base class answers MID instead of raising.
pred_price_trend_base_answers(class, stock_id, env) ==
    IF class = SBBEMA
    THEN [err |-> NoError, trend |-> SBBEMA_pred_price_trend(env[stock_id])]
    ELSE [err |-> NoError, trend |-> env[stock_id]]

\* self._pred_price_trend(stock_id) as dispatched on the class of the instance.
\* env[stock_id] is what the environment holds for the stock: the trend a
\* subclass's predictor answers, or the sample the EMA signal yields.
\* The base class raises (lines 73-74).
pred_price_trend(class, stock_id, env) ==
    IF class = SBB THEN [err |-> "NotImplementedError", trend |-> TREND_MID]
    ELSE IF class = SBBEMA
    THEN [err |-> NoError, trend |-> SBBEMA_pred_price_trend(env[stock_id])]
    ELSE [err |-> NoError, trend |-> env[stock_id]]

\* Mutant: the odd step doubles on any trend but MID, whatever the direction.
FavourableOdd_any_direction(trend, direction) ==
    trend = TREND_SHORT \/ trend = TREND_LONG

\* Line 100: the favourable side of an odd step.
FavourableOdd(trend, direction) ==
    \/ trend = TREND_SHORT /\ direction = SELL
    \/ trend = TREND_LONG /\ direction = BUY

\* Mutant: the even step tests the same sides as the odd step.
FavourableEven_same_as_odd(trend, direction) ==
    \/ trend = TREND_SHORT /\ direction = SELL
    \/ trend = TREND_LONG /\ direction = BUY

\* Line 111: the favourable side of an even step.
FavourableEven(trend, direction) ==
    \/ trend = TREND_SHORT /\ direction = BUY
    \/ trend = TREND_LONG /\ direction = SELL

\* The error a lookup in a map raises: SBBEMAStrategy.__init__ (lines 131-147)
\* never creates trade_amount or trade_trend, the other classes create both.
LookupError(class) == IF class = SBBEMA THEN "AttributeError" ELSE "KeyError"

Raise(acc, err) == [acc EXCEPT !.err = err, !.out = <<>>]

\* Mutant: the predictor is asked on every step.
PredictsOn_every_step(index) == index >= 1

\* Line 84: the predictor is asked on odd steps, the stored trend is read on
\* even steps.
PredictsOn(index) == index % 2 = 1

\* Mutant: every step takes the even-step branch of the decision.
OddBranch_never(index) == index < 0

\* Line 99: the odd-step branch of the decision.
OddBranch(index) == index % 2 = 1

\* Mutant: the trend is stored on even steps instead of odd steps.
StoresOn_even(index) == index % 2 = 0

\* Line 121: the trend is stored on odd steps.
StoresOn(index) == index % 2 = 1

\* Mutant: the favourable side trades the base amount, not twice it.
Doubled_not(base) == base

\* Lines 103 and 114: the amount of the favourable side.
Doubled(base) == 2 * base

\* Lines 84-122: one pass of the loop body, for one parent order.
\* c: the call (class, step, times, base amounts, environment),
\* acc: what the loop has done so far (orders emitted, trend map, predictor
\* calls, trend used per order).  A predictor call is recorded with the
\* arguments it is given (line 85 passes the stock only, so both times take
\* their default None) and with what the environment held for the stock.
SBB_body(c, order, acc) ==
    LET key == KeyOf(order)
        predicts == PredictsOn(c.index)
        p == pred_price_trend(c.class, order.stock_id, c.env)
        called == IF predicts
                  THEN [acc EXCEPT !.calls = Append(@,
                            [stock_id |-> order.stock_id,
                             pred_start_time |-> None, pred_end_time |-> None,
                             sampled |-> c.env[order.stock_id]])]
                  ELSE acc
    IN
    IF predicts /\ p.err # NoError THEN Raise(called, p.err)
    ELSE IF ~predicts /\ ~HasKey(acc.trend, key) THEN Raise(called, LookupError(c.class))
    ELSE
    LET _pred_trend == IF predicts THEN p.trend ELSE acc.trend[key]
        emits == \/ _pred_trend = TREND_MID
                 \/ OddBranch(c.index) /\ FavourableOdd(_pred_trend, order.direction)
                 \/ ~OddBranch(c.index) /\ FavourableEven(_pred_trend, order.direction)
        used == [called EXCEPT !.used = Append(@, [key |-> key, trend |-> _pred_trend])]
    IN
    IF emits /\ ~HasKey(c.amount, key) THEN Raise(used, LookupError(c.class))
    ELSE
    LET amount == IF _pred_trend = TREND_MID THEN c.amount[key] ELSE Doubled(c.amount[key])
        _order == Order(order.stock_id, amount, c.trade_start_time, c.trade_end_time,
                        order.direction, order.factor)
        emitted == IF emits THEN [used EXCEPT !.out = Append(@, _order)] ELSE used
    IN
    IF ~StoresOn(c.index) THEN emitted
    ELSE IF c.class = SBBEMA THEN Raise(emitted, LookupError(c.class))
    ELSE [emitted EXCEPT !.trend =
             [k \in DOMAIN @ \cup {key} |-> IF k = key THEN _pred_trend ELSE @[k]]]

\* The loop of line 83 over the orders i..Len(orders); it stops at the first
\* exception.
RECURSIVE SBB_loop(_, _, _, _)
SBB_loop(c, orders, i, acc) ==
    IF i > Len(orders) \/ acc.err # NoError THEN acc
    ELSE SBB_loop(c, orders, i + 1, SBB_body(c, orders[i], acc))

\* generate_order_list, lines 78-124, at step index (the cursor already
\* advanced) with the caller's trade_start_time and trade_end_time.
SBB_generate_order_list(class, orders, amount, trend, index, trade_start_time, trade_end_time, env) ==
    LET c == [class |-> class, index |-> index, amount |-> amount, env |-> env,
              trade_start_time |-> trade_start_time,
              trade_end_time |-> trade_end_time]
        acc0 == [err |-> NoError, out |-> <<>>, trend |-> trend,
                 calls |-> <<>>, used |-> <<>>]
    IN  SBB_loop(c, orders, 1, acc0)

-----------------------------------------------------------------------------
(* Construction and reset *)

\* TWAPStrategy.reset, lines 25-27, and SBBStrategy.reset, lines 69-71: the two
\* base resets and nothing else.
TWAP_reset(n, orders) == BaseReset(n, orders)

SBB_reset(n, orders) == BaseReset(n, orders)

State(r, amount, trend) ==
    [err |-> r.err, trade_len |-> r.trade_len, trade_order_list |-> r.trade_order_list,
     trade_amount |-> amount, trade_trend |-> trend]

\* Mutant: the base amounts are built from the given orders whether or not
\* reset has accepted them.
TWAP_init_before_reset(n, orders) ==
    State(TWAP_reset(n, orders), TWAP_init_trade_amount(orders, n), EmptyMap)

\* TWAPStrategy.__init__, lines 19-23: reset, then the base amounts.
TWAP_init(n, orders) ==
    LET r == TWAP_reset(n, orders) IN
    IF r.err # NoError THEN State(r, EmptyMap, EmptyMap)
    ELSE State(r, TWAP_init_trade_amount(r.trade_order_list, r.trade_len), EmptyMap)

\* SBBStrategy.__init__, lines 61-67: reset, then the base amounts and trends.
SBB_init(n, orders) ==
    LET r == SBB_reset(n, orders) IN
    IF r.err # NoError THEN State(r, EmptyMap, EmptyMap)
    ELSE State(r, SBB_init_trade_amount(r.trade_order_list, r.trade_len),
               SBB_init_trade_trend(r.trade_order_list))

\* SBBEMAStrategy.__init__, lines 140-147: reset is called without the parent
\* orders (the keyword arguments are not passed on), SBBStrategy.__init__ is not
\* called, and neither map is built.
SBBEMA_init(n, orders) ==
    State(SBB_reset(n, <<>>), EmptyMap, EmptyMap)

init(class, n, orders) ==
    IF class = TWAP THEN TWAP_init(n, orders)
    ELSE IF class = SBBEMA THEN SBBEMA_init(n, orders)
    ELSE SBB_init(n, orders)

reset(class, n, orders) ==
    IF class = TWAP THEN TWAP_reset(n, orders) ELSE SBB_reset(n, orders)

\* The outcome of an operation: the error raised (or none), the parent orders
\* given to __init__, and for generate_order_list the child orders
\* returned, the predictor calls made and the prediction window computed.
Outcome(op, err, given, out, calls, window) ==
    [op |-> op, err |-> err, given |-> given, out |-> out, calls |-> calls,
     window |-> window]

NoWindow == <<None, None>>

-----------------------------------------------------------------------------
(* Two instances in one process *)

\* Two SBB strategies with a predictor live in one process.  A dict is an
\* object on the heap and an instance holds a reference to it: heap is the
\* sequence of the trend dicts allocated so far, inst[x].trade_trend the
\* index of the dict the instance x refers to.
Instances == {"a", "b"}

\* An instance before __init__.
NoInstance ==
    [pc |-> "new", trade_len |-> 0, trade_index |-> 0, trade_order_list |-> <<>>,
     trade_amount |-> EmptyMap, trade_trend |-> 0, predicted |-> EmptyMap,
     used |-> <<>>, out |-> <<>>, err |-> NoError]

\* The parent orders the two instances are given: lists __init__ accepts.
PairOrderLists == {orders \in ResetOrderLists : ~HasDuplicateKey(orders)}

\* Mutant: the trend dict is one object of the class, shared by every instance.
NewDict_of_the_class(h) == 1

\* Line 64, self.trade_trend = {}: a dict display makes a new object at every
\* evaluation.
NewDict(h) == Len(h) + 1

\* Writing the entries of a map into the dict at a reference.
Written(h, ref, map) ==
    LET old == IF ref <= Len(h) THEN h[ref] ELSE EmptyMap
        new == [k \in DOMAIN old \cup DOMAIN map |->
                   IF k \in DOMAIN map THEN map[k] ELSE old[k]]
        top == IF ref > Len(h) THEN ref ELSE Len(h)
    IN  [i \in 1..top |-> IF i = ref THEN new ELSE h[i]]

-----------------------------------------------------------------------------
(* The state machine *)

Init ==
    /\ pc = "new"
    /\ cls = TWAP
    /\ trade_len = 0
    /\ trade_index = 0
    /\ trade_order_list = <<>>
    /\ trade_amount = EmptyMap
    /\ trade_trend = EmptyMap
    /\ log = <<>>
    /\ last = Outcome("none", NoError, <<>>, <<>>, <<>>, NoWindow)
    /\ heap = <<>>
    /\ inst = [x \in Instances |-> NoInstance]

\* class(step_bar, start_time, end_time, trade_order_list=orders)
Construct(class, n, orders) ==
    /\ pc = "new"
    /\ LET s == init(class, n, orders) IN
       /\ pc' = IF s.err = NoError THEN "ready" ELSE "failed"
       /\ cls' = class
       /\ trade_len' = s.trade_len
       /\ trade_index' = 0
       /\ trade_order_list' = s.trade_order_list
       /\ trade_amount' = s.trade_amount
       /\ trade_trend' = s.trade_trend
       /\ last' = Outcome("init", s.err, orders, <<>>, <<>>, NoWindow)
    /\ UNCHANGED <<log, pair>>

\* reset(start_time, end_time, trade_order_list=orders) on a constructed
\* instance: a new run.  A failed reset changes nothing.
Reset(n, orders) ==
    /\ pc = "ready"
    /\ LET r == reset(cls, n, orders) IN
       /\ last' = Outcome("reset", r.err, <<>>, <<>>, <<>>, NoWindow)
       /\ IF r.err = NoError
          THEN /\ trade_len' = r.trade_len
               /\ trade_order_list' = r.trade_order_list
               /\ trade_index' = 0
               /\ log' = <<>>
          ELSE UNCHANGED <<trade_len, trade_order_list, trade_index, log>>
    /\ UNCHANGED <<pc, cls, trade_amount, trade_trend, pair>>

Emitted(out) ==
    [i \in 1..Len(out) |-> [stock_id |-> out[i].stock_id,
                            direction |-> out[i].direction,
                            amount |-> out[i].amount]]

LogEntry(err, out, used) == [err |-> err, out |-> Emitted(out), used |-> used]

\* Mutant: generate_order_list without the call of the base method (line 30):
\* the cursor is advanced but never checked.
TWAPGenerate_without_base_call ==
    /\ pc = "ready"
    /\ cls = TWAP
    /\ LET g == TWAP_generate_order_list(trade_order_list, trade_amount, trade_index + 1)
       IN  /\ trade_index' = trade_index + 1
           /\ last' = Outcome("generate", g.err, <<>>, g.out, <<>>, NoWindow)
           /\ log' = Append(log, LogEntry(g.err, g.out, <<>>))
    /\ UNCHANGED <<pc, cls, trade_len, trade_order_list, trade_amount, trade_trend, pair>>

\* TWAPStrategy.generate_order_list()
TWAPGenerate ==
    /\ pc = "ready"
    /\ cls = TWAP
    /\ LET b == BaseStep(trade_index, trade_len)
           g == TWAP_generate_order_list(trade_order_list, trade_amount, b.trade_index)
       IN  /\ trade_index' = b.trade_index
           /\ IF b.err # NoError
              THEN /\ last' = Outcome("generate", b.err, <<>>, <<>>, <<>>, NoWindow)
                   /\ log' = log
              ELSE /\ last' = Outcome("generate", g.err, <<>>, g.out, <<>>, NoWindow)
                   /\ log' = Append(log, LogEntry(g.err, g.out, <<>>))
    /\ UNCHANGED <<pc, cls, trade_len, trade_order_list, trade_amount, trade_trend, pair>>

\* What the predictors of the class can answer on a step: a trend per stock
\* for a subclass, a sample per stock for the EMA signal.  No predictor is
\* consulted on an even step.
Envs(class, index) ==
    IF index % 2 = 0 \/ class = SBB THEN {[s \in Stocks |-> TREND_MID]}
    ELSE IF class = SBBEMA THEN [Stocks -> Samples]
    ELSE [Stocks -> Trends]

\* The times the caller can pass for step k: the bounds of the step, or those
\* of the step after it.
CallerTimes(index) ==
    {<<trade_dates(index - 1), trade_dates(index)>>,
     <<trade_dates(index), trade_dates(index + 1)>>}

\* SBBStrategy.generate_order_list(trade_start_time, trade_end_time)
SBBGenerate(trade_start_time, trade_end_time, env) ==
    /\ pc = "ready"
    /\ cls \in SBBClasses
    /\ LET b == BaseStep(trade_index, trade_len)
           g == SBB_generate_order_list(cls, trade_order_list, trade_amount, trade_trend,
                                        b.trade_index, trade_start_time, trade_end_time, env)
           w == SBB_pred_window(b.trade_index, trade_start_time)
       IN  /\ trade_index' = b.trade_index
           /\ IF b.err # NoError
              THEN /\ last' = Outcome("generate", b.err, <<>>, <<>>, <<>>, NoWindow)
                   /\ UNCHANGED <<log, trade_trend>>
              ELSE /\ last' = Outcome("generate", g.err, <<>>, g.out, g.calls, w)
                   /\ log' = Append(log, LogEntry(g.err, g.out, g.used))
                   /\ trade_trend' = g.trend
    /\ UNCHANGED <<pc, cls, trade_len, trade_order_list, trade_amount, pair>>

GenerateOrderList ==
    \/ TWAPGenerate
    \/ /\ pc = "ready"
       /\ cls \in SBBClasses
       /\ \E t \in CallerTimes(trade_index + 1), env \in Envs(cls, trade_index + 1) :
              SBBGenerate(t[1], t[2], env)

Constructor ==
    /\ pc = "new"
    /\ \E class \in Classes, n \in 1..MaxLen, orders \in OrderLists :
           Construct(class, n, orders)

Resetter ==
    /\ pc = "ready"
    /\ \E n \in 1..MaxLen, orders \in ResetOrderLists : Reset(n, orders)

NextRun ==
    \/ Constructor
    \/ GenerateOrderList

Next ==
    \/ Constructor
    \/ GenerateOrderList
    \/ Resetter

\* One run: an instance is constructed and stepped.
SpecRun == Init /\ [][NextRun]_vars

\* The whole life of an instance: construction, steps and later resets.
Spec == Init /\ [][Next]_vars

\* SBBStrategy.__init__ of the instance x of the pair, lines 61-67.
PairConstruct(x, n, orders) ==
    /\ inst[x].pc = "new"
    /\ LET s == SBB_init(n, orders)
           ref == NewDict(heap)
       IN  /\ heap' = Written(heap, ref, s.trade_trend)
           /\ inst' = [inst EXCEPT ![x] =
                  [NoInstance EXCEPT !.pc = "ready",
                                     !.trade_len = s.trade_len,
                                     !.trade_order_list = s.trade_order_list,
                                     !.trade_amount = s.trade_amount,
                                     !.trade_trend = ref]]
    /\ UNCHANGED single

\* The trend the predictor answered for each key on a step.
Predicted(used) ==
    [key \in {used[i].key : i \in 1..Len(used)} |->
        used[CHOOSE i \in 1..Len(used) : used[i].key = key].trend]

\* generate_order_list of the instance x of the pair, lines 76-124, called
\* with the bounds of the step: the trends are read from and written to the
\* dict the instance refers to.
PairGenerate(x, env) ==
    /\ inst[x].pc = "ready"
    /\ LET me == inst[x]
           b == BaseStep(me.trade_index, me.trade_len)
           g == SBB_generate_order_list(SBBSUB, me.trade_order_list, me.trade_amount,
                                        heap[me.trade_trend], b.trade_index,
                                        trade_dates(b.trade_index - 1),
                                        trade_dates(b.trade_index), env)
       IN  IF b.err # NoError
           THEN /\ inst' = [inst EXCEPT ![x].err = b.err, ![x].out = <<>>,
                                        ![x].used = <<>>]
                /\ heap' = heap
           ELSE /\ inst' = [inst EXCEPT ![x].trade_index = b.trade_index,
                                        ![x].err = g.err,
                                        ![x].out = Emitted(g.out),
                                        ![x].used = g.used,
                                        ![x].predicted =
                                            IF PredictsOn(b.trade_index)
                                            THEN Predicted(g.used) ELSE @]
                /\ heap' = [heap EXCEPT ![me.trade_trend] = g.trend]
    /\ UNCHANGED single

PairConstructor ==
    \E x \in Instances :
        /\ inst[x].pc = "new"
        /\ \E n \in 1..MaxLen, orders \in PairOrderLists : PairConstruct(x, n, orders)

PairGenerateOrderList ==
    \E x \in Instances :
        /\ inst[x].pc = "ready"
        /\ \E env \in Envs(SBBSUB, inst[x].trade_index + 1) : PairGenerate(x, env)

NextPair ==
    \/ PairConstructor
    \/ PairGenerateOrderList

\* Two instances constructed and stepped in any interleaving.
SpecPair == Init /\ [][NextPair]_vars

-----------------------------------------------------------------------------
(* Properties *)

\* The amounts of the child orders of a list that carry the given key, in order.
AmountsOf(out, key) ==
    LET F[i \in 0..Len(out)] ==
            IF i = 0 THEN <<>>
            ELSE IF KeyOf(out[i]) = key THEN Append(F[i - 1], out[i].amount)
            ELSE F[i - 1]
    IN  F[Len(out)]

BaseAmount(key) == IF HasKey(trade_amount, key) THEN trade_amount[key] ELSE 0

Odd(step) == step % 2 = 1

Generated == pc = "ready" /\ last.op = "generate" /\ last.err # "StepOutOfRange"

Returned == Generated /\ last.err = NoError

\* The log entry of the call that was just made.
Entry == log[Len(log)]

\* The decision table of the specification (section 4.3): the amounts of the
\* child orders a key gets on a step.
DecisionTable(trend, odd, direction, base) ==
    CASE trend = TREND_MID -> <<base>>
      [] trend = TREND_SHORT /\ odd /\ direction = SELL -> <<2 * base>>
      [] trend = TREND_SHORT /\ odd /\ direction = BUY -> <<>>
      [] trend = TREND_SHORT /\ ~odd /\ direction = BUY -> <<2 * base>>
      [] trend = TREND_SHORT /\ ~odd /\ direction = SELL -> <<>>
      [] trend = TREND_LONG /\ odd /\ direction = BUY -> <<2 * base>>
      [] trend = TREND_LONG /\ odd /\ direction = SELL -> <<>>
      [] trend = TREND_LONG /\ ~odd /\ direction = SELL -> <<2 * base>>
      [] trend = TREND_LONG /\ ~odd /\ direction = BUY -> <<>>

\* C1: whenever SBBStrategy.generate_order_list returns, every registered
\* parent order got the child orders the decision table gives for the trend
\* used for its key (predicted on an odd step, replayed on an even step), the
\* parity of the step and its direction: base_amount on MID, twice base_amount
\* on the favourable side, nothing on the unfavourable side.
C1_DecisionTable ==
    (Returned /\ cls \in SBBClasses) =>
        /\ Len(Entry.used) = Len(trade_order_list)
        /\ \A i \in 1..Len(trade_order_list) :
               LET order == trade_order_list[i]
                   key == KeyOf(order)
               IN  /\ Entry.used[i].key = key
                   /\ AmountsOf(last.out, key) =
                          DecisionTable(Entry.used[i].trend, Odd(trade_index),
                                        order.direction, BaseAmount(key))

\* C1 witness: an even step that replays LONG for a BUY and a SELL order of
\* non-zero base amount: the SELL order is doubled, the BUY order is skipped.
C1_Witness ==
    /\ Returned /\ cls \in SBBClasses
    /\ trade_index = 2
    /\ Len(trade_order_list) = 2
    /\ \A i \in 1..2 : Entry.used[i].trend = TREND_LONG /\ BaseAmount(Entry.used[i].key) > 0
    /\ Len(last.out) = 1
    /\ last.out[1].direction = SELL
    /\ last.out[1].amount = 2 * BaseAmount(KeyOf(last.out[1]))

\* The sum of a sequence of numbers.
Sum(seq) ==
    LET F[i \in 0..Len(seq)] == IF i = 0 THEN 0 ELSE F[i - 1] + seq[i]
    IN  F[Len(seq)]

\* The amounts a key was given over the calls of the current run, call by call.
AmountsPerStep(key) == [k \in 1..Len(log) |-> Sum(AmountsOf(log[k].out, key))]

\* The total amount a key was given over the calls of the current run.
Executed(key) == Sum(AmountsPerStep(key))

\* C2: TWAP conservation.  When the N steps of the run of a TWAPStrategy have
\* been generated, the child amounts of every parent order sum to
\* N * (total_amount // N), which is at most total_amount and short of it by
\* less than N.
C2_TWAPConservation ==
    (pc = "ready" /\ cls = TWAP /\ trade_index = trade_len) =>
        /\ Len(log) = trade_len
        /\ \A i \in 1..Len(trade_order_list) :
               LET total == trade_order_list[i].amount
                   sum == Executed(KeyOf(trade_order_list[i]))
               IN  /\ sum = trade_len * (total \div trade_len)
                   /\ sum <= total
                   /\ total - sum < trade_len
                   /\ total - sum = total % trade_len

\* C2 witness: a finished TWAP run of more than one step that loses a
\* non-zero remainder.
C2_Witness ==
    /\ pc = "ready" /\ cls = TWAP /\ trade_index = trade_len /\ trade_len > 1
    /\ Len(log) = trade_len
    /\ \E i \in 1..Len(trade_order_list) :
           LET sum == Executed(KeyOf(trade_order_list[i]))
           IN  sum > 0 /\ sum < trade_order_list[i].amount

\* Every predictor call of the current run so far has answered MID (and none
\* has raised).
AlwaysMID ==
    \A k \in 1..Len(log) :
        /\ log[k].err = NoError
        /\ \A i \in 1..Len(log[k].used) : log[k].used[i].trend = TREND_MID

\* What a TWAPStrategy constructed from the same parent orders and calendar
\* returns at the current step.
TWAPOut ==
    TWAP_generate_order_list(trade_order_list,
                             TWAP_init_trade_amount(trade_order_list, trade_len),
                             trade_index).out

WithoutTimes(out) ==
    [i \in 1..Len(out) |-> [stock_id |-> out[i].stock_id, amount |-> out[i].amount,
                            direction |-> out[i].direction, factor |-> out[i].factor]]

\* C3: SBB MID passthrough.  While the predictor answers MID on every call,
\* the child orders an SBBStrategy returns at a step are the child orders a
\* TWAPStrategy returns at that step for the same parent orders and calendar:
\* same keys, amounts, directions, factors and step bounds.
C3_MIDPassthrough ==
    (Returned /\ cls \in SBBClasses /\ AlwaysMID) => last.out = TWAPOut

\* C3, the part that holds of the code: keys, amounts, directions and factors
\* are those of TWAP; the step bounds are whatever the caller passed.
C3_MIDPassthroughButTimes ==
    (Returned /\ cls \in SBBClasses /\ AlwaysMID) =>
        WithoutTimes(last.out) = WithoutTimes(TWAPOut)

\* The (odd, even) pairs of consecutive steps both generated in the current
\* run, named by their odd step.
Pairs == {k \in 1..Len(log) : Odd(k) /\ k + 1 <= Len(log)}

\* The trend decided for the i-th parent order on step k.
Decided(k, i) == log[k].used[i].trend

\* C4: SBB deferral pairing.  For every parent order and every consecutive
\* (odd step k, even step k+1) pair, when the trend decided for its key on step
\* k is not MID, one of the two steps returns exactly one child order for the
\* key, of twice the base amount, and the other returns none for the key.
C4_DeferralPairing ==
    (pc = "ready" /\ cls \in SBBClasses) =>
        \A k \in Pairs :
            log[k].err = NoError =>
                \A i \in 1..Len(trade_order_list) :
                    LET key == KeyOf(trade_order_list[i])
                        odd == AmountsOf(log[k].out, key)
                        even == AmountsOf(log[k + 1].out, key)
                        doubled == <<2 * BaseAmount(key)>>
                    IN  Decided(k, i) # TREND_MID =>
                            \/ odd = doubled /\ even = <<>>
                            \/ odd = <<>> /\ even = doubled

\* C4 witness: a pair whose odd step decided SHORT for a BUY order of non-zero
\* base amount: nothing on the odd step, the doubled order on the even step.
C4_Witness ==
    /\ pc = "ready" /\ cls \in SBBClasses
    /\ \E k \in Pairs, i \in 1..Len(trade_order_list) :
           LET key == KeyOf(trade_order_list[i]) IN
           /\ log[k].err = NoError
           /\ Decided(k, i) = TREND_SHORT
           /\ trade_order_list[i].direction = BUY
           /\ BaseAmount(key) > 0
           /\ AmountsOf(log[k].out, key) = <<>>
           /\ AmountsOf(log[k + 1].out, key) = <<2 * BaseAmount(key)>>

\* A generate_order_list step of an SBB instance on an even step.
EvenStep ==
    /\ pc = "ready" /\ cls \in SBBClasses
    /\ trade_index' = trade_index + 1
    /\ ~Odd(trade_index')

\* A generate_order_list step of an SBB instance on an odd step.
OddStep ==
    /\ pc = "ready" /\ cls \in SBBClasses
    /\ trade_index' = trade_index + 1
    /\ Odd(trade_index')

\* The trend an odd step that returned has left stored for each parent order
\* is the one the predictor answered for it.
StoredIsPredicted ==
    (Returned /\ cls \in SBBClasses /\ Odd(trade_index)) =>
        \A i \in 1..Len(trade_order_list) :
            trade_trend[KeyOf(trade_order_list[i])] = Entry.used[i].trend

\* The trend an even step uses for each parent order is the one the predictor
\* answered for it on the odd step before.
ReplayedIsPredicted ==
    (pc = "ready" /\ cls \in SBBClasses) =>
        \A k \in Pairs :
            log[k].err = NoError =>
                /\ log[k + 1].err = NoError
                /\ \A i \in 1..Len(trade_order_list) :
                       /\ log[k + 1].used[i].key = KeyOf(trade_order_list[i])
                       /\ log[k + 1].used[i].trend = Decided(k, i)

\* C5: trend persistence.  For every key the trend used to decide an even step
\* k+1 is the value the predictor returned for the key on the odd step k just
\* before, which that step stored; an even step leaves every stored trend
\* unchanged, and after construction the stored trends change on odd steps only.
C5_TrendPersistence ==
    /\ [](StoredIsPredicted /\ ReplayedIsPredicted)
    /\ [][EvenStep => trade_trend' = trade_trend]_vars
    /\ [][(pc = "ready" /\ trade_trend' # trade_trend) => OddStep]_vars

\* C5 witness: an even step has just replayed the LONG its odd step predicted.
C5_Witness ==
    /\ Returned /\ cls \in SBBClasses
    /\ trade_index = 2 /\ Len(log) = 2
    /\ Len(trade_order_list) > 0
    /\ log[1].err = NoError
    /\ Decided(1, 1) = TREND_LONG
    /\ Entry.used[1].trend = TREND_LONG
    /\ trade_trend[KeyOf(trade_order_list[1])] = TREND_LONG

\* C6: SBB favourable doubling across parallel keys.  When a security has a
\* BUY and a SELL parent order and the trend decided on an odd step is LONG,
\* that step returns exactly twice the base amount for the BUY key and nothing
\* for the SELL key, both keys hold LONG as their stored trend, and the paired
\* even step returns nothing for the BUY key and exactly twice the base amount
\* for the SELL key.
C6_FavourableDoubling ==
    (pc = "ready" /\ cls \in SBBClasses) =>
        \A k \in 1..Len(log), i, j \in 1..Len(trade_order_list) :
            LET buy == trade_order_list[i]
                sell == trade_order_list[j]
            IN  ( /\ Odd(k) /\ log[k].err = NoError
                  /\ buy.stock_id = sell.stock_id
                  /\ buy.direction = BUY /\ sell.direction = SELL
                  /\ Decided(k, i) = TREND_LONG ) =>
                    /\ Decided(k, j) = TREND_LONG
                    /\ AmountsOf(log[k].out, KeyOf(buy)) = <<2 * BaseAmount(KeyOf(buy))>>
                    /\ AmountsOf(log[k].out, KeyOf(sell)) = <<>>
                    /\ Len(log) = k =>
                           /\ trade_trend[KeyOf(buy)] = TREND_LONG
                           /\ trade_trend[KeyOf(sell)] = TREND_LONG
                    /\ Len(log) > k =>
                           /\ log[k + 1].used[i].trend = TREND_LONG
                           /\ log[k + 1].used[j].trend = TREND_LONG
                           /\ AmountsOf(log[k + 1].out, KeyOf(buy)) = <<>>
                           /\ AmountsOf(log[k + 1].out, KeyOf(sell)) =
                                  <<2 * BaseAmount(KeyOf(sell))>>

\* C6 witness: a security with a BUY and a SELL order of non-zero base amounts,
\* LONG decided on step 1, the pair of steps 1 and 2 generated.
C6_Witness ==
    /\ pc = "ready" /\ cls \in SBBClasses /\ Len(log) = 2
    /\ \E i, j \in 1..Len(trade_order_list) :
           LET buy == trade_order_list[i]
               sell == trade_order_list[j]
           IN  /\ buy.stock_id = sell.stock_id
               /\ buy.direction = BUY /\ sell.direction = SELL
               /\ BaseAmount(KeyOf(buy)) > 0 /\ BaseAmount(KeyOf(sell)) > 0
               /\ log[1].err = NoError /\ Decided(1, i) = TREND_LONG
               /\ Emitted(last.out) = log[2].out
               /\ Len(last.out) = 1
               /\ last.out[1].direction = SELL
               /\ last.out[1].amount = 2 * BaseAmount(KeyOf(sell))

\* The child amounts a TWAPStrategy returned for a key are the same at any two
\* steps of the run.
Uniform ==
    (pc = "ready" /\ cls = TWAP) =>
        \A i \in 1..Len(trade_order_list), k1, k2 \in 1..Len(log) :
            LET key == KeyOf(trade_order_list[i])
            IN  /\ AmountsOf(log[k1].out, key) = AmountsOf(log[k2].out, key)
                /\ Len(AmountsOf(log[k1].out, key)) = 1

\* C7: TWAP uniformity.  For every key, the child amount a TWAPStrategy returns
\* is the same at any two steps of a run, and a call of generate_order_list
\* changes neither the base amounts nor the registered parent orders.
C7_TWAPUniformity ==
    /\ []Uniform
    /\ [][(pc = "ready" /\ cls = TWAP /\ last'.op = "generate") =>
              /\ trade_amount' = trade_amount
              /\ trade_order_list' = trade_order_list]_vars

\* C7 witness: a TWAP run of three steps that returned the same non-zero
\* amount for a key at each step.
C7_Witness ==
    /\ pc = "ready" /\ cls = TWAP /\ Len(log) = 3
    /\ \E i \in 1..Len(trade_order_list) :
           LET key == KeyOf(trade_order_list[i])
           IN  /\ BaseAmount(key) > 0
               /\ \A k \in 1..3 : AmountsOf(log[k].out, key) = <<BaseAmount(key)>>

\* C8: after every call of reset that returns, by the constructor or on a
\* constructed instance after any number of steps, the strategy state holds
\* exactly one entry per registered parent order, with base_amount =
\* total_amount // N for the calendar just bound and, for the SBB classes,
\* trend = MID: nothing of the previous run is left.
C8_ResetRebuildsState ==
    (pc = "ready" /\ last.op \in {"init", "reset"} /\ last.err = NoError) =>
        /\ DOMAIN trade_amount = KeysOf(trade_order_list)
        /\ \A i \in 1..Len(trade_order_list) :
               trade_amount[KeyOf(trade_order_list[i])] =
                   trade_order_list[i].amount \div trade_len
        /\ cls \in SBBClasses =>
               /\ DOMAIN trade_trend = KeysOf(trade_order_list)
               /\ \A key \in DOMAIN trade_trend : trade_trend[key] = TREND_MID

\* Two parent orders of the list share their (security_id, direction).
SharesKey(orders) ==
    \E i, j \in 1..Len(orders) :
        /\ i # j
        /\ orders[i].stock_id = orders[j].stock_id
        /\ orders[i].direction = orders[j].direction

\* The classes whose constructor passes the given parent orders on to reset.
PassesOrders == {TWAP, SBB, SBBSUB}

\* C9: reset fails with DuplicateKey when two of the parent orders it is given
\* share their (security_id, direction), and no strategy state is built from
\* such a list: the constructor that called it leaves no base amount, trend or
\* registered order, no instance ever holds a list with a shared key, and a
\* failed reset leaves the state as it was.
C9_DuplicateKey ==
    /\ []((last.op = "init" /\ cls \in PassesOrders /\ SharesKey(last.given)) =>
              /\ last.err = "DuplicateKey"
              /\ pc = "failed"
              /\ trade_amount = EmptyMap /\ trade_trend = EmptyMap
              /\ trade_order_list = <<>>)
    /\ [](pc = "ready" => ~SharesKey(trade_order_list))
    /\ [][last'.err = "DuplicateKey" =>
              UNCHANGED <<trade_amount, trade_trend, trade_order_list, trade_index>>]_vars

\* C9 witness: a constructor given two orders of the same key and different
\* amounts has failed.
C9_Witness ==
    /\ last.op = "init" /\ cls \in PassesOrders
    /\ last.err = "DuplicateKey"
    /\ Len(last.given) = 2
    /\ KeyOf(last.given[1]) = KeyOf(last.given[2])
    /\ last.given[1].amount # last.given[2].amount

\* C10: a call of generate_order_list made after step N has been generated
\* fails with StepOutOfRange and returns no child orders, for TWAPStrategy and
\* for the SBB classes; it is the only way the call fails so.
C10_StepOutOfRange ==
    /\ [][(pc = "ready" /\ trade_index = trade_len /\ last'.op = "generate") =>
              /\ last'.err = "StepOutOfRange"
              /\ last'.out = <<>>
              /\ log' = log]_vars
    /\ []((pc = "ready" /\ last.err = "StepOutOfRange") =>
              /\ trade_index = trade_len
              /\ last.out = <<>>)
    /\ [](pc = "ready" => trade_index <= trade_len)

\* C10 witness: an SBB run of three steps with a parent order, and a call after
\* the third step that failed.
C10_Witness ==
    /\ pc = "ready" /\ cls \in SBBClasses
    /\ trade_len = 3 /\ Len(log) = 3 /\ Len(trade_order_list) > 0
    /\ last.op = "generate" /\ last.err = "StepOutOfRange"

\* A call of generate_order_list on an odd step of a base SBBStrategy that
\* holds at least one parent order.
BaseOddCall ==
    /\ pc = "ready" /\ cls = SBB
    /\ Len(trade_order_list) >= 1
    /\ trade_index < trade_len /\ Odd(trade_index + 1)
    /\ last'.op = "generate"

\* C11: in the base SBBStrategy, generate_order_list on any odd step with at
\* least one registered parent order fails with NotImplementedError: no child
\* order list is returned and no trend entry is written, so that the stored
\* trends of a base SBBStrategy stay as the constructor left them.
C11_BaseNotImplemented ==
    /\ [][BaseOddCall =>
              /\ last'.err = "NotImplementedError"
              /\ last'.out = <<>>
              /\ trade_trend' = trade_trend]_vars
    /\ []((pc = "ready" /\ cls = SBB) =>
              trade_trend = SBB_init_trade_trend(trade_order_list))

\* C11 witness: the third step of a base SBBStrategy with a parent order has
\* failed, after a first step that failed and a second (even) step that
\* returned.
C11_Witness ==
    /\ pc = "ready" /\ cls = SBB
    /\ Len(trade_order_list) >= 1
    /\ trade_index = 3 /\ Len(log) = 3
    /\ last.op = "generate" /\ last.err = "NotImplementedError"
    /\ last.out = <<>>
    /\ Len(last.calls) = 1
    /\ log[1].err = "NotImplementedError" /\ log[2].err = NoError

\* The predictor calls of the step just generated by an SBBEMAStrategy, with
\* the trend each call answered.
EMACalls ==
    IF Generated /\ cls = SBBEMA /\ Odd(trade_index)
    THEN {i \in 1..Len(last.calls) : i <= Len(Entry.used)}
    ELSE {}

\* C12: the EMA predictor classifies the sampled signal by sign: LONG if and
\* only if the value is positive, SHORT if and only if it is negative, MID (not
\* an error) when the window holds no data; and an odd step whose predictor
\* answered the no-data MID returns the base_amount order of the key.
C12_EMAClassifiesBySign ==
    (Generated /\ cls = SBBEMA /\ Odd(trade_index)) =>
        /\ Len(Entry.used) = Len(last.calls)
        /\ \A i \in EMACalls :
               LET sampled == last.calls[i].sampled
                   trend == Entry.used[i].trend
                   key == Entry.used[i].key
               IN  /\ trend = TREND_LONG <=> sampled = "positive"
                   /\ trend = TREND_SHORT <=> sampled = "negative"
                   /\ sampled = "empty" =>
                          /\ trend = TREND_MID
                          /\ last.err = NoError
                          /\ HasKey(trade_amount, key)
                          /\ AmountsOf(last.out, key) = <<trade_amount[key]>>

\* C12, the part that holds of the code: LONG if and only if the value is
\* positive, MID if and only if there is no data, SHORT for every other value
\* (negative or zero), and the predictor itself never raises.
C12_EMAClassifiesButZero ==
    (Generated /\ cls = SBBEMA /\ Odd(trade_index)) =>
        /\ Len(Entry.used) = Len(last.calls)
        /\ last.err # "NotImplementedError"
        /\ \A i \in EMACalls :
               LET sampled == last.calls[i].sampled
                   trend == Entry.used[i].trend
               IN  /\ trend = TREND_LONG <=> sampled = "positive"
                   /\ trend = TREND_SHORT <=> sampled \in {"negative", "zero"}
                   /\ trend = TREND_MID <=> sampled = "empty"

\* The window of the specification for step k: from the end of step k-2 (no
\* start on step 1) to one instant before the start of step k.
StepWindow(k) ==
    <<IF k = 1 THEN None ELSE Some(trade_dates(k - 2)), Some(trade_dates(k - 1) - 1)>>

\* C13: on every odd step k the predictor is called, for the security of each
\* parent order, with the window from the end of step k-2 (no start when
\* k = 1) to one instant before the start of step k: the window each call
\* receives is this window.
C13_PredictorWindow ==
    (Generated /\ cls \in SBBClasses /\ Odd(trade_index)) =>
        \A i \in 1..Len(last.calls) :
            /\ last.calls[i].stock_id = trade_order_list[i].stock_id
            /\ <<last.calls[i].pred_start_time, last.calls[i].pred_end_time>> =
                   StepWindow(trade_index)

\* C13, the part that holds of the code: the predictor is called for the
\* security of each parent order; the window is computed, with the start the
\* claim gives and an end one instant before the start time the caller
\* passed, but no call receives it: every call is made with the stock alone.
C13_PredictorGetsNoWindow ==
    (Generated /\ cls \in SBBClasses /\ Odd(trade_index)) =>
        /\ last.window[1] = StepWindow(trade_index)[1]
        /\ \E t \in CallerTimes(trade_index) : last.window[2] = Some(t[1] - 1)
        /\ \A i \in 1..Len(last.calls) :
               /\ last.calls[i].stock_id = trade_order_list[i].stock_id
               /\ last.calls[i].pred_start_time = None
               /\ last.calls[i].pred_end_time = None

\* The predictor calls of the step just generated that were made for a key.
CallsFor(key) ==
    {i \in 1..Len(last.calls) :
        i <= Len(trade_order_list) /\ KeyOf(trade_order_list[i]) = key}

\* C14: over any run of an SBB strategy, an odd step that returns has invoked
\* the predictor exactly once per registered key, for the security of the key
\* and in the order of the parent orders; no odd step invokes it more than once
\* for a key; an even step never invokes it.
C14_PredictorOncePerKey ==
    (Generated /\ cls \in SBBClasses) =>
        /\ ~Odd(trade_index) => last.calls = <<>>
        /\ Odd(trade_index) =>
               /\ Len(last.calls) <= Len(trade_order_list)
               /\ \A i \in 1..Len(last.calls) :
                      last.calls[i].stock_id = trade_order_list[i].stock_id
               /\ \A key \in KeysOf(trade_order_list) : Cardinality(CallsFor(key)) <= 1
               /\ last.err = NoError =>
                      \A key \in KeysOf(trade_order_list) : Cardinality(CallsFor(key)) = 1

\* C14 witness: the third step of a run with two keys has returned after two
\* predictor calls; the second step before it returned too.
C14_Witness ==
    /\ Returned /\ cls \in SBBClasses
    /\ trade_index = 3 /\ Len(log) = 3
    /\ Len(trade_order_list) = 2
    /\ Len(last.calls) = 2
    /\ log[2].err = NoError /\ Len(log[2].used) = 2

\* The constructed instances of the pair.
Ready == {x \in Instances : inst[x].pc = "ready"}

\* No two instances refer to the same trend dict.
Owned == \A x, y \in Ready : x # y => inst[x].trade_trend # inst[y].trade_trend

\* The trend dict of an instance holds what the predictor last answered to
\* that instance (MID before its first step), whatever the other has done.
OwnTrends ==
    \A x \in Ready :
        LET me == inst[x]
            mine == heap[me.trade_trend]
        IN  /\ DOMAIN mine = KeysOf(me.trade_order_list)
            /\ \A key \in DOMAIN mine :
                   mine[key] = IF me.trade_index = 0 THEN TREND_MID ELSE me.predicted[key]

\* The child orders of an even step of an instance are decided by the trends
\* the predictor answered to that instance on its odd step before.
OwnOrders ==
    \A x \in Ready :
        LET me == inst[x] IN
        (me.trade_index >= 1 /\ ~Odd(me.trade_index) /\ me.err = NoError) =>
            \A i \in 1..Len(me.trade_order_list) :
                LET order == me.trade_order_list[i]
                    key == KeyOf(order)
                IN  /\ me.used[i].trend = me.predicted[key]
                    /\ AmountsOf(me.out, key) =
                           DecisionTable(me.predicted[key], FALSE, order.direction,
                                         me.trade_amount[key])

ChildOf(out, orders, i) ==
    /\ out[i].stock_id = orders[i].stock_id
    /\ out[i].direction = orders[i].direction
    /\ out[i].factor = orders[i].factor

\* C16: at every step k, TWAPStrategy returns exactly one child order per
\* registered parent order, with the security, direction and factor of the
\* parent and the calendar bounds of the step as start and end time (boundary
\* k-1 and boundary k); the windows of consecutive steps are contiguous and
\* strictly increasing.
C16_TWAPChildOrders ==
    /\ []((Returned /\ cls = TWAP) =>
              /\ Len(last.out) = Len(trade_order_list)
              /\ \A i \in 1..Len(last.out) :
                     /\ ChildOf(last.out, trade_order_list, i)
                     /\ last.out[i].start_time = trade_dates(trade_index - 1)
                     /\ last.out[i].end_time = trade_dates(trade_index)
                     /\ last.out[i].start_time < last.out[i].end_time)
    /\ [][(Returned /\ cls = TWAP /\ Returned' /\ trade_index' = trade_index + 1) =>
              \A i \in 1..Len(last.out) :
                  /\ last'.out[i].start_time = last.out[i].end_time
                  /\ last'.out[i].end_time > last.out[i].end_time]_vars

\* C16 witness: the third step of a TWAPStrategy with a BUY and a SELL order of
\* different factors has returned its two child orders.
C16_Witness ==
    /\ Returned /\ cls = TWAP
    /\ trade_index = 3
    /\ Len(trade_order_list) = 2 /\ Len(last.out) = 2
    /\ last.out[1].direction # last.out[2].direction
    /\ last.out[1].factor # last.out[2].factor
    /\ last.out[1].start_time = trade_dates(2)

\* The N steps of the run of an SBB strategy have been generated and every one
\* of them returned.
FullRun ==
    /\ pc = "ready" /\ cls \in SBBClasses
    /\ trade_index = trade_len /\ Len(log) = trade_len
    /\ \A k \in 1..Len(log) : log[k].err = NoError

\* C17: SBB over- and under-execution are reachable, and happen exactly on
\* the unpaired last step of a run of odd length.  After the full run of N
\* steps the child amounts of a key sum to more than the parent's total_amount
\* if and only if N is odd, the trend predicted on step N is the favourable one
\* for the direction (LONG for BUY, SHORT for SELL) and base_amount exceeds
\* total_amount mod N; they fall short of total_amount by more than
\* total_amount mod N if and only if N is odd, the trend predicted on step N is
\* the unfavourable one and base_amount is not zero.
C17_OverAndUnderExecution ==
    FullRun =>
        \A i \in 1..Len(trade_order_list) :
            LET order == trade_order_list[i]
                total == order.amount
                base == total \div trade_len
                sum == Executed(KeyOf(order))
                trend == Decided(trade_len, i)
                with == \/ trend = TREND_LONG /\ order.direction = BUY
                        \/ trend = TREND_SHORT /\ order.direction = SELL
                against == \/ trend = TREND_LONG /\ order.direction = SELL
                           \/ trend = TREND_SHORT /\ order.direction = BUY
            IN  /\ sum > total <=>
                       (Odd(trade_len) /\ with /\ base > total % trade_len)
                /\ total - sum > total % trade_len <=>
                       (Odd(trade_len) /\ against /\ base > 0)

\* C17 witness: a full run of three steps whose last prediction is LONG, over
\* a BUY and a SELL order of the same total: the BUY order is over-executed,
\* the SELL order is short by more than its truncation remainder.
C17_Witness ==
    /\ FullRun /\ trade_len = 3
    /\ \E i, j \in 1..Len(trade_order_list) :
           LET buy == trade_order_list[i]
               sell == trade_order_list[j]
           IN  /\ buy.direction = BUY /\ sell.direction = SELL
               /\ Decided(3, i) = TREND_LONG
               /\ Executed(KeyOf(buy)) > buy.amount
               /\ sell.amount - Executed(KeyOf(sell)) > sell.amount % trade_len

\* What a TWAPStrategy constructed from the same parent orders and calendar
\* has given a key over its first n steps.
TWAPExecuted(key, n) ==
    LET amount == TWAP_init_trade_amount(trade_order_list, trade_len)
    IN  Sum([k \in 1..n |->
                Sum(AmountsOf(TWAP_generate_order_list(trade_order_list, amount, k).out,
                              key))])

\* Every step generated so far in the run has returned.
AllReturned == \A k \in 1..Len(log) : log[k].err = NoError

\* C18: SBB pair conservation.  For every key and every answer of the
\* predictor, the amounts returned over a complete (odd step k, even step k+1)
\* pair sum to exactly 2*base_amount; hence after an even number of steps the
\* amount an SBB strategy has given a key is the amount a TWAPStrategy has
\* given it, and after an odd number of steps the two differ by the last,
\* unpaired step only: by base_amount at most, in either direction.
C18_PairConservation ==
    (pc = "ready" /\ cls \in SBBClasses) =>
        \A i \in 1..Len(trade_order_list) :
            LET key == KeyOf(trade_order_list[i])
                base == trade_order_list[i].amount \div trade_len
                diff == Executed(key) - TWAPExecuted(key, Len(log))
            IN  /\ \A k \in Pairs :
                       log[k].err = NoError =>
                           AmountsPerStep(key)[k] + AmountsPerStep(key)[k + 1] = 2 * base
                /\ AllReturned =>
                       /\ ~Odd(Len(log)) => diff = 0
                       /\ Odd(Len(log)) => diff \in {0 - base, 0, base}

\* C18 witness: after three steps the predictor has answered SHORT, then LONG,
\* for a BUY order of non-zero base amount: nothing and twice the base amount
\* over the pair, as much as TWAP after step 2, and base_amount more after
\* step 3.
C18_Witness ==
    /\ pc = "ready" /\ cls \in SBBClasses
    /\ Len(log) = 3 /\ AllReturned
    /\ \E i \in 1..Len(trade_order_list) :
           LET key == KeyOf(trade_order_list[i])
               base == trade_order_list[i].amount \div trade_len
           IN  /\ trade_order_list[i].direction = BUY /\ base > 0
               /\ Decided(1, i) = TREND_SHORT /\ Decided(3, i) = TREND_LONG
               /\ AmountsPerStep(key) = <<0, 2 * base, 2 * base>>
               /\ Executed(key) = TWAPExecuted(key, 3) + base

\* The parent orders registered under a key.
ParentsOf(key) == {i \in 1..Len(trade_order_list) : KeyOf(trade_order_list[i]) = key}

\* C19: in every step of an SBB strategy that returns, each registered key
\* gets at most one child order (none is allowed), no child order is returned
\* for a key that is not registered, and every child order has a non-negative
\* amount that is base_amount or 2*base_amount of its key, with the direction
\* and factor of its parent order.
C19_SBBChildOrders ==
    (Returned /\ cls \in SBBClasses) =>
        /\ \A key \in KeysOf(trade_order_list) : Len(AmountsOf(last.out, key)) <= 1
        /\ \A j \in 1..Len(last.out) :
               LET child == last.out[j]
                   key == KeyOf(child)
               IN  /\ key \in KeysOf(trade_order_list)
                   /\ HasKey(trade_amount, key)
                   /\ child.amount >= 0
                   /\ child.amount \in {trade_amount[key], 2 * trade_amount[key]}
                   /\ trade_amount[key] =
                          trade_order_list[LastIndexOf(trade_order_list, key)].amount
                              \div trade_len
                   /\ \A i \in ParentsOf(key) :
                          /\ child.direction = trade_order_list[i].direction
                          /\ child.factor = trade_order_list[i].factor

\* C19 witness: an odd step with a BUY order of factor 2 and a SELL order has
\* returned one child order only, the doubled BUY order with its factor; the
\* SELL key got none.
C19_Witness ==
    /\ Returned /\ cls \in SBBClasses /\ Odd(trade_index)
    /\ Len(trade_order_list) = 2
    /\ Len(last.out) = 1
    /\ last.out[1].direction = BUY /\ last.out[1].factor = 2
    /\ last.out[1].amount > 0
    /\ last.out[1].amount = 2 * trade_amount[KeyOf(last.out[1])]
    /\ AmountsOf(last.out, <<last.out[1].stock_id, SELL>>) = <<>>

====
